---- MODULE Spec2Model ----
(***************************************************************************)
(* Model of the OpenSCD editing session (src/open-scd.ts): the edit        *)
(* history (history, editCount, docVersion), the document registry (docs,  *)
(* docName) and the document trees the edits act on.  The applier          *)
(* handleEdit and the converter convertEdit live in the library            *)
(* @openenergytools/xml-lib; they are modelled from section 4.1 and 7 of   *)
(* the specification.                                                      *)
(***************************************************************************)
EXTENDS Integers, Sequences, FiniteSets, TLC

VARIABLES
    history,     \* OpenSCD.history : LogEntry[]
    editCount,   \* OpenSCD.editCount
    docVersion,  \* OpenSCD.docVersion
    docs,        \* OpenSCD.docs : Record<string, XMLDocument>
    docName,     \* OpenSCD.docName
    dom,         \* the nodes the edits act on: children lists and attributes
    lastCall,    \* the handler or method that ran last, with its arguments
    applied,     \* the edits that call handed to handleEdit, in order
    raised,      \* whether that call ended by an error reaching its caller
    snap,        \* the trees recorded at each cursor position by the appends
    failFast,    \* the applier's answer to a malformed edit: throw, or ignore it
    workflow,    \* OpenSCD.workflow : WizardRequest[]
    plugins,        \* OpenSCD.#plugins : PluginSet
    loadedPlugins,  \* OpenSCD.#loadedPlugins : Map<tagName, Plugin>
    pluginTags,     \* the module's memo of tag names : Map<uri, tagName>
    customElements, \* the tag names defined in the custom element registry
    imports         \* the tag names whose module import is still in flight

pluginVars == <<plugins, loadedPlugins, pluginTags, customElements, imports>>

vars == <<history, editCount, docVersion, docs, docName, dom, lastCall,
          applied, raised, snap, failFast, workflow, pluginVars>>

----------------------------------------------------------------------------
(* Bounds *)

MaxHist == 2        \* longest history explored
MaxVersion == 6     \* largest docVersion explored
MaxSessionVersion == 4  \* largest docVersion explored together with open-document events
MaxParts == 3       \* most edits held by a history, squashed ones counted apart
MaxN == 2           \* largest n passed to undo(n) / redo(n)
MaxPlugins == 1     \* most descriptors configured at a time
MaxImports == 1     \* most module imports in flight at a time
MaxPluginVersion == 3   \* largest docVersion explored together with plugin events
MaxPluginList == 2  \* most descriptors configured at a time, plugin events alone
MaxPending == 2     \* most module imports in flight at a time, plugin events alone
MaxWorkflow == 3    \* most wizard requests queued at a time

----------------------------------------------------------------------------
(* Values *)

Null == "null"              \* JavaScript null
Undefined == "undefined"    \* JavaScript undefined

DocNodes == {"D1", "D2"}    \* XMLDocument objects
Elems == {"x", "y"}         \* element nodes
Nodes == DocNodes \cup Elems
AttrNames == {"a"}
DocNames == {"A.scd"}

EmptyMap == [k \in {} |-> Null]

Min(a, b) == IF a < b THEN a ELSE b

Max(a, b) == IF a > b THEN a ELSE b

Has(s, n) == \E i \in 1..Len(s) : s[i] = n

IndexOf(s, n) == CHOOSE i \in 1..Len(s) : s[i] = n /\ \A j \in 1..(i - 1) : s[j] # n

Without(s, n) == SelectSeq(s, LAMBDA m : m # n)

InsertAt(s, i, n) == SubSeq(s, 1, i - 1) \o <<n>> \o SubSeq(s, i, Len(s))

----------------------------------------------------------------------------
(* EditV2 values *)

Insert(p, n, r) == [type |-> "Insert", parent |-> p, node |-> n, reference |-> r]
Remove(n) == [type |-> "Remove", node |-> n]
SetAttributes(e, a) == [type |-> "SetAttributes", element |-> e, attributes |-> a]
Complex(es) == [type |-> "Complex", edits |-> es]

isComplex(e) == e.type = "Complex"

\* Legacy Edit values (the `oscd-edit` event)
Update(e, a) == [type |-> "Update", element |-> e, attributes |-> a]

RECURSIVE convertEdit(_)
convertEdit(edit) ==
    CASE edit.type = "Remove" -> edit
      [] edit.type = "Insert" -> edit
      [] edit.type = "Update" -> SetAttributes(edit.element, edit.attributes)
      [] edit.type = "Complex" ->
            Complex([i \in 1..Len(edit.edits) |-> convertEdit(edit.edits[i])])
      [] OTHER -> Complex(<<>>)

----------------------------------------------------------------------------
(* The document tree *)

InitDom == [kids |-> [n \in Nodes |-> <<>>],
            attr |-> [e \in Elems |-> [a \in AttrNames |-> Null]]]

parentNode(d, n) ==
    IF \E p \in Nodes : Has(d.kids[p], n)
    THEN CHOOSE p \in Nodes : Has(d.kids[p], n)
    ELSE Null

nextSibling(d, n) ==
    LET p == parentNode(d, n) IN
    IF p = Null THEN Null
    ELSE LET i == IndexOf(d.kids[p], n) IN
         IF i = Len(d.kids[p]) THEN Null ELSE d.kids[p][i + 1]

RECURSIVE InclusiveAncestors(_, _)
InclusiveAncestors(d, n) ==
    IF parentNode(d, n) = Null THEN {n}
    ELSE {n} \cup InclusiveAncestors(d, parentNode(d, n))

Detach(d, n) ==
    [d EXCEPT !.kids = [p \in Nodes |-> Without(d.kids[p], n)]]

\* parent.insertBefore(node, reference) on a tree where it is permitted
InsertBefore(d, p, n, r) ==
    LET ref == IF r = n THEN nextSibling(d, n) ELSE r
        d1 == Detach(d, n)
        at == IF ref = Null THEN Len(d1.kids[p]) + 1 ELSE IndexOf(d1.kids[p], ref)
    IN [d1 EXCEPT !.kids[p] = InsertAt(d1.kids[p], at, n)]

----------------------------------------------------------------------------
(* The applier: handleEdit(edit) mutates the tree and returns the inverse.  *)
(* A result is [dom, inv, ok]: the tree afterwards, the inverse edit, and   *)
(* whether the call returned (ok) or threw.  The specification leaves the   *)
(* applier's answer to a malformed edit open: with ff it throws, without ff *)
(* it ignores the edit and returns the empty edit.                          *)

Malformed(d, ff) ==
    [dom |-> d, inv |-> Complex(<<>>), ok |-> ~ff]

handleInsert(d, e, ff) ==
    LET oldParent == parentNode(d, e.node)
        oldNext == nextSibling(d, e.node)
    IN IF \/ e.node \in DocNodes
          \/ e.node \in InclusiveAncestors(d, e.parent)
          \/ (e.reference # Null /\ parentNode(d, e.reference) # e.parent)
       THEN Malformed(d, ff)
       ELSE [dom |-> InsertBefore(d, e.parent, e.node, e.reference),
             inv |-> IF oldParent # Null
                     THEN Insert(oldParent, e.node, oldNext)
                     ELSE Remove(e.node),
             ok |-> TRUE]

handleRemove(d, e, ff) ==
    LET oldParent == parentNode(d, e.node)
        oldNext == nextSibling(d, e.node)
    IN IF oldParent = Null
       THEN Malformed(d, ff)
       ELSE [dom |-> Detach(d, e.node),
             inv |-> Insert(oldParent, e.node, oldNext),
             ok |-> TRUE]

handleSetAttributes(d, e) ==
    LET keys == DOMAIN e.attributes
        old == d.attr[e.element]
    IN [dom |-> [d EXCEPT !.attr[e.element] =
                    [a \in AttrNames |-> IF a \in keys THEN e.attributes[a] ELSE old[a]]],
        inv |-> SetAttributes(e.element, [a \in keys |-> old[a]]),
        ok |-> TRUE]

RECURSIVE handleEdit(_, _, _)
RECURSIVE handleComplex(_, _, _, _)

\* the sub-edits in order; invs collects their inverses, newest first
handleComplex(d, es, invs, ff) ==
    IF es = <<>> THEN [dom |-> d, inv |-> Complex(invs), ok |-> TRUE]
    ELSE LET r == handleEdit(d, Head(es), ff) IN
         IF ~r.ok THEN [dom |-> r.dom, inv |-> Complex(<<>>), ok |-> FALSE]
         ELSE handleComplex(r.dom, Tail(es), <<r.inv>> \o invs, ff)

handleEdit(d, edit, ff) ==
    CASE edit.type = "Insert" -> handleInsert(d, edit, ff)
      [] edit.type = "Remove" -> handleRemove(d, edit, ff)
      [] edit.type = "SetAttributes" -> handleSetAttributes(d, edit)
      [] edit.type = "Complex" -> handleComplex(d, edit.edits, <<>>, ff)
      [] OTHER -> [dom |-> d, inv |-> Complex(<<>>), ok |-> TRUE]

----------------------------------------------------------------------------
(* Inputs *)

Titles == {Undefined, "", "add X"}

attrOn == [a \in AttrNames |-> "1"]

\* the edits carried by `oscd-edit-v2` events
EditInputs ==
    { Insert("D1", "x", Null),
      Remove("x"),
      SetAttributes("x", attrOn),
      Complex(<<Insert("D2", "x", Null), Insert("D2", "y", "x")>>) }

\* the edits carried by legacy `oscd-edit` events
LegacyInputs ==
    { Update("x", attrOn) }

NArgs == 0..MaxN

\* the call that ran last: c and len are editCount and history.length before it
Call(op, n, title, squash) ==
    [op |-> op, n |-> n, title |-> title, squash |-> squash,
     c |-> editCount, len |-> Len(history)]

----------------------------------------------------------------------------
(* The history *)

last == editCount - 1
canUndo == last >= 0
canRedo == editCount < Len(history)

\* a splice that forgets to cut the array
spliceKeepsAll(h, start) == h

\* Array.prototype.splice(start) with start >= 0: keeps the first start items
splice(h, start) == SubSeq(h, 1, Min(start, Len(h)))

\* Array.prototype.pop on the array itself
\* a pop that leaves the entry in the history
popKeeps(h) == h

pop(h) == IF h = <<>> THEN h ELSE SubSeq(h, 1, Len(h) - 1)

Entry(undo, redo, title) == [undo |-> undo, redo |-> redo, title |-> title]

\* a squash that puts the older inverse first
squashUndoOldestFirst(h, undoEdits) ==
    IF h = <<>> THEN undoEdits
    ELSE LET lastUndo == h[Len(h)].undo IN
         Complex((IF isComplex(lastUndo) THEN lastUndo.edits ELSE <<lastUndo>>)
                 \o (IF isComplex(undoEdits) THEN undoEdits.edits ELSE <<undoEdits>>))

squashUndo(h, undoEdits) ==
    IF h = <<>> THEN undoEdits
    ELSE LET lastUndo == h[Len(h)].undo IN
         IF isComplex(lastUndo) /\ isComplex(undoEdits)
         THEN Complex(undoEdits.edits \o lastUndo.edits)
         ELSE IF isComplex(lastUndo) /\ ~isComplex(undoEdits)
         THEN Complex(<<undoEdits>> \o lastUndo.edits)
         ELSE IF ~isComplex(lastUndo) /\ isComplex(undoEdits)
         THEN Complex(undoEdits.edits \o <<lastUndo>>)
         ELSE Complex(<<undoEdits, lastUndo>>)

\* a squashRedo that keeps the earlier entry and the new edit as two parts
squashRedoNested(h, edits) ==
    IF h = <<>> THEN edits
    ELSE Complex(<<h[Len(h)].redo, edits>>)

squashRedo(h, edits) ==
    IF h = <<>> THEN edits
    ELSE LET lastRedo == h[Len(h)].redo IN
         IF isComplex(lastRedo) /\ isComplex(edits)
         THEN Complex(lastRedo.edits \o edits.edits)
         ELSE IF isComplex(lastRedo) /\ ~isComplex(edits)
         THEN Complex(lastRedo.edits \o <<edits>>)
         ELSE IF ~isComplex(lastRedo) /\ isComplex(edits)
         THEN Complex(<<lastRedo>> \o edits.edits)
         ELSE Complex(<<lastRedo, edits>>)

Size(e) == IF isComplex(e) THEN Len(e.edits) ELSE 1

\* the number of edits a history holds, squashed ones counted apart
RECURSIVE Parts(_)
Parts(h) == IF h = <<>> THEN 0 ELSE Size(h[1].redo) + Parts(Tail(h))

\* a title that is never carried forward
logTitleOwn(h, title) ==
    IF title # Undefined /\ title # "" THEN title ELSE Undefined

\* title || this.history[this.history.length - 1]?.title
logTitle(h, title) ==
    IF title # Undefined /\ title # "" THEN title
    ELSE IF h = <<>> THEN Undefined ELSE h[Len(h)].title

\* an update that forgets to count
updateVersionForgets(v) == v

updateVersion(v) == v + 1

Init ==
    /\ history = <<>>
    /\ editCount = 0
    /\ docVersion = 0
    /\ docs = EmptyMap
    /\ docName = ""
    /\ dom = InitDom
    /\ lastCall = [op |-> "init", n |-> 0, title |-> Undefined, squash |-> FALSE,
                   c |-> 0, len |-> 0]
    /\ applied = <<>>
    /\ raised = FALSE
    /\ snap = <<InitDom>>
    /\ failFast \in BOOLEAN
    /\ plugins = [menu |-> <<>>, editor |-> <<>>]
    /\ loadedPlugins = EmptyMap
    /\ pluginTags = EmptyMap
    /\ customElements = {}
    /\ imports = <<>>
    /\ workflow = <<>>

\* handleOpenDoc storing the document before it switches the name
handleOpenDocStale(name, doc) ==
    /\ docName' = name
    /\ docs' = [k \in DOMAIN docs \cup {docName} |-> IF k = docName THEN doc ELSE docs[k]]
    /\ lastCall' = Call("open", 0, Undefined, FALSE) @@ [name |-> name, doc |-> doc]
    /\ applied' = <<>>
    /\ raised' = FALSE
    /\ UNCHANGED <<history, editCount, docVersion, dom, snap, failFast, workflow, pluginVars>>

\* handleOpenDoc starting a fresh history for the document it opens
handleOpenDocFresh(name, doc) ==
    /\ docName' = name
    /\ docs' = [k \in DOMAIN docs \cup {name} |-> IF k = name THEN doc ELSE docs[k]]
    /\ lastCall' = Call("open", 0, Undefined, FALSE) @@ [name |-> name, doc |-> doc]
    /\ applied' = <<>>
    /\ raised' = FALSE
    /\ history' = <<>>
    /\ editCount' = 0
    /\ snap' = <<dom>>
    /\ UNCHANGED <<docVersion, dom, failFast, workflow, pluginVars>>

handleOpenDoc(name, doc) ==
    /\ docName' = name
    /\ docs' = [k \in DOMAIN docs \cup {name} |-> IF k = name THEN doc ELSE docs[k]]
    /\ lastCall' = Call("open", 0, Undefined, FALSE) @@ [name |-> name, doc |-> doc]
    /\ applied' = <<>>
    /\ raised' = FALSE
    /\ UNCHANGED <<history, editCount, docVersion, dom, snap, failFast, workflow, pluginVars>>

handleEditEvent(edit) ==
    LET editV2 == convertEdit(edit)
        h1 == splice(history, editCount)
    IN \E r \in {handleEdit(dom, editV2, failFast)} :
       /\ lastCall' = Call("edit", 0, Undefined, FALSE)
       /\ applied' = <<editV2>>
       /\ dom' = r.dom
       /\ raised' = ~r.ok
       /\ UNCHANGED <<docs, docName, failFast, workflow, pluginVars>>
       /\ IF r.ok
          THEN /\ history' = Append(h1, Entry(r.inv, editV2, Undefined))
               /\ editCount' = editCount + 1
               /\ docVersion' = updateVersion(docVersion)
               /\ snap' = Append(SubSeq(snap, 1, Len(h1) + 1), r.dom)
               /\ Len(history') <= MaxHist
               /\ docVersion' <= MaxVersion
               /\ Parts(history') <= MaxParts
          ELSE /\ history' = h1
               /\ snap' = SubSeq(snap, 1, Len(h1) + 1)
               /\ UNCHANGED <<editCount, docVersion>>

handleEditEventV2(edit, title, squash) ==
    \E r \in {handleEdit(dom, edit, failFast)} :
    LET h1 == splice(history, editCount)
        undoEdit == IF squash THEN squashUndo(h1, r.inv) ELSE r.inv
        redoEdit == IF squash THEN squashRedo(h1, edit) ELSE edit
        h2 == IF squash THEN pop(h1) ELSE h1
    IN /\ lastCall' = Call("editV2", 0, title, squash)
       /\ applied' = <<edit>>
       /\ dom' = r.dom
       /\ raised' = ~r.ok
       /\ UNCHANGED <<docs, docName, failFast, workflow, pluginVars>>
       /\ IF r.ok
          THEN /\ history' = Append(h2, Entry(undoEdit, redoEdit, logTitle(h1, title)))
               /\ editCount' = Len(history')
               /\ docVersion' = updateVersion(docVersion)
               /\ snap' = Append(SubSeq(snap, 1, Len(h2) + 1), r.dom)
               /\ Len(history') <= MaxHist
               /\ docVersion' <= MaxVersion
               /\ Parts(history') <= MaxParts
          ELSE /\ history' = h1
               /\ snap' = SubSeq(snap, 1, Len(h1) + 1)
               /\ UNCHANGED <<editCount, docVersion>>

\* the part of the state undo(n) and redo(n) work on
Cursor == [history |-> history, editCount |-> editCount, docVersion |-> docVersion,
           dom |-> dom, applied |-> <<>>, raised |-> FALSE]

RECURSIVE undo(_, _)

\* an undo that counts a version before it looks at the cursor
undoCountsFirst(st, n) ==
    IF ~(st.editCount - 1 >= 0) \/ n < 1
    THEN [st EXCEPT !.docVersion = updateVersion(@)]
    ELSE LET e == st.history[(st.editCount - 1) + 1].undo
             r == handleEdit(st.dom, e, failFast)
             st1 == [st EXCEPT !.dom = r.dom,
                               !.applied = Append(@, e),
                               !.editCount = @ - 1,
                               !.docVersion = updateVersion(@)]
         IN IF n > 1 THEN undo(st1, n - 1) ELSE st1

\* an undo whose recursion does not count down
undoToStart(st, n) ==
    IF ~(st.editCount - 1 >= 0) \/ n < 1 THEN st
    ELSE LET e == st.history[(st.editCount - 1) + 1].undo
             r == handleEdit(st.dom, e, failFast)
             st1 == [st EXCEPT !.dom = r.dom,
                               !.applied = Append(@, e),
                               !.editCount = @ - 1,
                               !.docVersion = updateVersion(@)]
         IN undo(st1, n)

\* an undo that goes through the append path and so records itself
undoRecorded(st, n) ==
    IF ~(st.editCount - 1 >= 0) \/ n < 1 THEN st
    ELSE LET e == st.history[(st.editCount - 1) + 1].undo
             r == handleEdit(st.dom, e, failFast)
             st1 == [st EXCEPT !.dom = r.dom,
                               !.applied = Append(@, e),
                               !.history = Append(@, Entry(r.inv, e, Undefined)),
                               !.editCount = @ - 1,
                               !.docVersion = updateVersion(@)]
         IN IF n > 1 THEN undo(st1, n - 1) ELSE st1

undo(st, n) ==
    IF ~(st.editCount - 1 >= 0) \/ n < 1 THEN st
    ELSE LET e == st.history[(st.editCount - 1) + 1].undo
             r == handleEdit(st.dom, e, failFast)
         IN IF ~r.ok
            THEN [st EXCEPT !.dom = r.dom, !.applied = Append(@, e), !.raised = TRUE]
            ELSE LET st1 == [st EXCEPT !.dom = r.dom,
                                       !.applied = Append(@, e),
                                       !.editCount = @ - 1,
                                       !.docVersion = updateVersion(@)]
                 IN IF n > 1 THEN undo(st1, n - 1) ELSE st1

RECURSIVE redo(_, _)

\* a redo that replays the entry's undo edit instead of its redo edit
redoReplaysUndo(st, n) ==
    IF ~(st.editCount < Len(st.history)) \/ n < 1 THEN st
    ELSE LET e == st.history[st.editCount + 1].undo
             r == handleEdit(st.dom, e, FALSE)
             st1 == [st EXCEPT !.dom = r.dom,
                               !.applied = Append(@, e),
                               !.editCount = @ + 1,
                               !.docVersion = updateVersion(@)]
         IN IF n > 1 THEN redo(st1, n - 1) ELSE st1

redo(st, n) ==
    IF ~(st.editCount < Len(st.history)) \/ n < 1 THEN st
    ELSE LET e == st.history[st.editCount + 1].redo
             r == handleEdit(st.dom, e, failFast)
         IN IF ~r.ok
            THEN [st EXCEPT !.dom = r.dom, !.applied = Append(@, e), !.raised = TRUE]
            ELSE LET st1 == [st EXCEPT !.dom = r.dom,
                                       !.applied = Append(@, e),
                                       !.editCount = @ + 1,
                                       !.docVersion = updateVersion(@)]
                 IN IF n > 1 THEN redo(st1, n - 1) ELSE st1

\* the state a call of undo(n) or redo(n) leaves behind
Moved(op, n, st) ==
    /\ lastCall' = Call(op, n, Undefined, FALSE)
    /\ history' = st.history
    /\ editCount' = st.editCount
    /\ docVersion' = st.docVersion
    /\ dom' = st.dom
    /\ applied' = st.applied
    /\ raised' = st.raised
    /\ docVersion' <= MaxVersion
    /\ UNCHANGED <<docs, docName, snap, failFast, workflow, pluginVars>>

Undo(n) == \E st \in {undo(Cursor, n)} : Moved("undo", n, st)

Redo(n) == \E st \in {redo(Cursor, n)} : Moved("redo", n, st)

----------------------------------------------------------------------------
(* The plugin registry *)

Kinds == {"menu", "editor"}

Plugin(name, src) == [name |-> name, src |-> src]

\* a `config` of null in a configure-plugin event
NoPlugin == Plugin(Null, Null)

\* the 64 bit hash of a source URI, as a number
cyrb64(uri) == CASE uri = "a.js" -> 1 [] uri = "b.js" -> 2 [] OTHER -> 0

\* the memo after pluginTag(uri), and the tag name it returns
pluginTagsAfter(tags, uri) ==
    IF uri \in DOMAIN tags THEN tags
    ELSE [u \in DOMAIN tags \cup {uri} |->
             IF u = uri THEN <<"oscd-p", cyrb64(uri)>> ELSE tags[u]]

pluginTag(tags, uri) == pluginTagsAfter(tags, uri)[uri]

\* the registry state loadPlugin and unloadPlugin work on
Registry == [plugins |-> plugins, loadedPlugins |-> loadedPlugins,
             pluginTags |-> pluginTags, imports |-> imports]

\* loadPlugin without the check of loadedPlugins
loadPluginAgain(reg, plugin) ==
    LET tagName == pluginTag(reg.pluginTags, plugin.src)
        reg1 == [reg EXCEPT !.pluginTags = pluginTagsAfter(@, plugin.src)]
        reg2 == [reg1 EXCEPT !.loadedPlugins =
                    [t \in DOMAIN @ \cup {tagName} |->
                        IF t = tagName THEN plugin ELSE @[t]]]
    IN IF tagName \in customElements THEN reg2
       ELSE [reg2 EXCEPT !.imports = Append(@, tagName)]

loadPlugin(reg, plugin) ==
    LET tagName == pluginTag(reg.pluginTags, plugin.src)
        reg1 == [reg EXCEPT !.pluginTags = pluginTagsAfter(@, plugin.src)]
    IN IF tagName \in DOMAIN reg.loadedPlugins THEN reg1
       ELSE LET reg2 == [reg1 EXCEPT !.loadedPlugins =
                            [t \in DOMAIN @ \cup {tagName} |->
                                IF t = tagName THEN plugin ELSE @[t]]]
            IN IF tagName \in customElements THEN reg2
               ELSE [reg2 EXCEPT !.imports = Append(@, tagName)]

\* unloadPlugin taking the last descriptor of that name instead of the first
unloadPluginLast(reg, name, kind) ==
    LET list == reg.plugins[kind] IN
    IF ~\E i \in 1..Len(list) : list[i].name = name THEN reg
    ELSE LET index == CHOOSE i \in 1..Len(list) :
                         /\ list[i].name = name
                         /\ \A j \in (i + 1)..Len(list) : list[j].name # name
             tagName == pluginTag(reg.pluginTags, list[index].src)
         IN [reg EXCEPT !.plugins[kind] =
                            SubSeq(list, 1, index - 1) \o SubSeq(list, index + 1, Len(list)),
                        !.pluginTags = pluginTagsAfter(@, list[index].src),
                        !.loadedPlugins = [t \in DOMAIN @ \ {tagName} |-> @[t]]]

unloadPlugin(reg, name, kind) ==
    LET list == reg.plugins[kind] IN
    IF ~\E i \in 1..Len(list) : list[i].name = name THEN reg
    ELSE LET index == CHOOSE i \in 1..Len(list) :
                         /\ list[i].name = name
                         /\ \A j \in 1..(i - 1) : list[j].name # name
             tagName == pluginTag(reg.pluginTags, list[index].src)
         IN [reg EXCEPT !.plugins[kind] =
                            SubSeq(list, 1, index - 1) \o SubSeq(list, index + 1, Len(list)),
                        !.pluginTags = pluginTagsAfter(@, list[index].src),
                        !.loadedPlugins = [t \in DOMAIN @ \ {tagName} |-> @[t]]]

onConfigurePlugin(reg, name, kind, config) ==
    IF config = NoPlugin THEN unloadPlugin(reg, name, kind)
    ELSE LET reg1 == loadPlugin(reg, config) IN
         [reg1 EXCEPT !.plugins[kind] = Append(@, config)]

RECURSIVE loadAll(_, _)
loadAll(reg, list) ==
    IF list = <<>> THEN reg ELSE loadAll(loadPlugin(reg, Head(list)), Tail(list))

\* set plugins(plugins): the lists of a kind the set leaves out become empty
setPlugins(reg, set) ==
    [loadAll(loadAll(reg, set.menu), set.editor) EXCEPT !.plugins = set]

\* a call into the plugin registry, with the detail of its event
PluginCall(op, name, kind, config) ==
    Call(op, 0, Undefined, FALSE) @@ [name |-> name, kind |-> kind, config |-> config]

\* the state a call into the plugin registry leaves behind
Registers(call, reg) ==
    /\ lastCall' = call
    /\ applied' = <<>>
    /\ raised' = FALSE
    /\ plugins' = reg.plugins
    /\ loadedPlugins' = reg.loadedPlugins
    /\ pluginTags' = reg.pluginTags
    /\ imports' = reg.imports
    /\ UNCHANGED <<history, editCount, docVersion, docs, docName, dom, snap,
                   failFast, workflow, customElements>>

Registered(call, reg) ==
    /\ Registers(call, reg)
    /\ Len(plugins'.menu) + Len(plugins'.editor) <= MaxPlugins
    /\ Len(imports') <= MaxImports

\* import(url).then(mod => customElements.define(tagName, mod.default)):
\* define throws, inside the promise, when the tag name is defined already
ImportDone ==
    /\ imports # <<>>
    /\ \E i \in 1..Len(imports) :
          /\ imports' = SubSeq(imports, 1, i - 1) \o SubSeq(imports, i + 1, Len(imports))
          /\ customElements' = customElements \cup {imports[i]}
          /\ raised' = (imports[i] \in customElements)
    /\ lastCall' = Call("import", 0, Undefined, FALSE)
    /\ applied' = <<>>
    /\ UNCHANGED <<history, editCount, docVersion, docs, docName, dom, snap,
                   failFast, workflow, plugins, loadedPlugins, pluginTags>>

\* the plugins the events of a session configure
SessionPlugins == {Plugin("p", "a.js")}

ConfigurePlugin ==
    \E name \in {"p"}, kind \in Kinds, config \in SessionPlugins \cup {NoPlugin} :
        Registered(PluginCall("configure", name, kind, config),
                   onConfigurePlugin(Registry, name, kind, config))

SetPlugins ==
    \E menu \in {<<>>} \cup {<<q>> : q \in SessionPlugins} :
        Registered(PluginCall("plugins", Null, Null, [menu |-> menu, editor |-> <<>>]),
                   setPlugins(Registry, [menu |-> menu, editor |-> <<>>]))

OpenDoc == \E name \in DocNames, doc \in DocNodes : handleOpenDoc(name, doc)

EditEvent == \E edit \in LegacyInputs : handleEditEvent(edit)

EditEventV2 == \E edit \in EditInputs, title \in Titles, squash \in BOOLEAN :
                   handleEditEventV2(edit, title, squash)

\* the edits of a session that also configures plugins
SessionEdits == {Insert("D1", "x", Null), Remove("x")}

SessionEditEventV2 == \E edit \in SessionEdits, squash \in BOOLEAN :
                          handleEditEventV2(edit, Undefined, squash)

UndoCall == \E n \in NArgs : Undo(n)

RedoCall == \E n \in NArgs : Redo(n)

\* the edit history alone
Next == EditEvent \/ EditEventV2 \/ UndoCall \/ RedoCall

Spec == Init /\ [][Next]_vars

\* the edit history together with the document registry
NextSession ==
    \/ OpenDoc
    \/ EditEvent /\ docVersion' <= MaxSessionVersion
    \/ EditEventV2 /\ docVersion' <= MaxSessionVersion
    \/ UndoCall /\ docVersion' <= MaxSessionVersion
    \/ RedoCall /\ docVersion' <= MaxSessionVersion

SpecSession == Init /\ [][NextSession]_vars

\* the edit history together with the document and plugin registries
NextAll ==
    \/ OpenDoc
    \/ ConfigurePlugin
    \/ SetPlugins
    \/ ImportDone
    \/ EditEvent /\ docVersion' <= MaxPluginVersion
    \/ SessionEditEventV2 /\ docVersion' <= MaxPluginVersion
    \/ UndoCall /\ docVersion' <= MaxPluginVersion
    \/ RedoCall /\ docVersion' <= MaxPluginVersion

SpecAll == Init /\ [][NextAll]_vars

\* get doc(): the entry of docs under docName, undefined when there is none;
\* the getter has no path that throws
doc == [value |-> IF docName \in DOMAIN docs THEN docs[docName] ELSE Undefined,
        raised |-> FALSE]

\* docName is a public, reflected property: the page or an attribute sets it
setDocName(name) ==
    /\ docName' = name
    /\ lastCall' = Call("docName", 0, Undefined, FALSE) @@ [name |-> name]
    /\ applied' = <<>>
    /\ raised' = FALSE
    /\ UNCHANGED <<history, editCount, docVersion, docs, dom, snap, failFast, workflow, pluginVars>>

\* the names of a session that only opens documents
OpenNames == {"", "A.scd", "B.scd", "C.scd"}

OpenAnyDoc == \E name \in OpenNames, d \in DocNodes : handleOpenDoc(name, d)

SetDocName == \E name \in OpenNames : setDocName(name)

\* open-document events alone
NextOpen == OpenAnyDoc

SpecOpen == Init /\ [][NextOpen]_vars

\* open-document events and assignments to docName
NextDocs == OpenAnyDoc \/ SetDocName

SpecDocs == Init /\ [][NextDocs]_vars

\* the plugins and plugin sets handed to a session that only configures plugins
PluginNames == {"p", "q"}
PluginInputs == {Plugin("p", "a.js"), Plugin("p", "b.js"), Plugin("q", "a.js")}
PluginSets == {[menu |-> m, editor |-> <<>>] : m \in {<<>>} \cup {<<p>> : p \in PluginInputs}}

RegisteredPlugins(call, reg) ==
    /\ Registers(call, reg)
    /\ Len(plugins'.menu) + Len(plugins'.editor) <= MaxPluginList
    /\ Len(imports') <= MaxPending

\* a configure-plugin event that removes the plugin called name
RemovePlugin ==
    \E name \in PluginNames, kind \in Kinds :
        RegisteredPlugins(PluginCall("configure", name, kind, NoPlugin),
                          onConfigurePlugin(Registry, name, kind, NoPlugin))

\* a configure-plugin event that carries a plugin, under the plugin's name
AddPlugin ==
    \E kind \in Kinds, config \in PluginInputs :
        RegisteredPlugins(PluginCall("configure", config.name, kind, config),
                          onConfigurePlugin(Registry, config.name, kind, config))

AssignPlugins ==
    \E set \in PluginSets :
        RegisteredPlugins(PluginCall("plugins", Null, Null, set), setPlugins(Registry, set))

\* the plugin registry alone
NextPlugins == RemovePlugin \/ AddPlugin \/ AssignPlugins \/ ImportDone

\* no edit is handled here: the behaviour of the applier plays no part
InitPlugins == Init /\ ~failFast

SpecPlugins == InitPlugins /\ [][NextPlugins]_vars

----------------------------------------------------------------------------
(* The wizard workflow *)

\* a wizard request is an object: id stands for its identity
WizardRequest(id, subWizard) == [id |-> id, subWizard |-> subWizard]

WizardRequests == {WizardRequest(1, FALSE), WizardRequest(2, FALSE),
                   WizardRequest(3, TRUE), WizardRequest(4, TRUE)}

\* Array.prototype.indexOf: the index, from 0, of the first occurrence, or -1
indexOf(s, n) == IF Has(s, n) THEN IndexOf(s, n) - 1 ELSE -1

\* Array.prototype.splice(start, 1): a negative start counts from the end
spliceOne(s, start) ==
    LET from == IF start < 0 THEN Max(Len(s) + start, 0) ELSE Min(start, Len(s))
        count == Min(1, Len(s) - from)
    IN SubSeq(s, 1, from) \o SubSeq(s, from + count + 1, Len(s))

\* the state a wizard event leaves behind
Queued(op, wizard, queue) ==
    /\ workflow' = queue
    /\ lastCall' = Call(op, 0, Undefined, FALSE) @@ [wizard |-> wizard]
    /\ applied' = <<>>
    /\ raised' = FALSE
    /\ Len(workflow') <= MaxWorkflow
    /\ UNCHANGED <<history, editCount, docVersion, docs, docName, dom, snap,
                   failFast, pluginVars>>

closeWizard(wizard) ==
    Queued("closeWizard", wizard, spliceOne(workflow, indexOf(workflow, wizard)))

onWizard(wizard) ==
    Queued("onWizard", wizard,
           IF wizard.subWizard THEN <<wizard>> \o workflow ELSE Append(workflow, wizard))

CloseWizard == \E wizard \in WizardRequests : closeWizard(wizard)

WizardRequested == \E wizard \in WizardRequests : onWizard(wizard)

\* the wizard events alone
NextWizards == WizardRequested \/ CloseWizard

SpecWizards == Init /\ [][NextWizards]_vars

----------------------------------------------------------------------------
(* Properties *)

\* C1: after any appends, the tree at cursor k is the tree the appends
\* recorded for cursor k, so n undos followed by n redos bring back the tree
\* that followed e1..en; and at the end of the history one more redo changes
\* nothing.
C1_RoundTrip ==
    /\ Len(snap) = Len(history) + 1
    /\ dom = snap[editCount + 1]
    /\ editCount = Len(history) => \A n \in NArgs : redo(Cursor, n) = Cursor

\* two effective edits, both undone, then redo(2) from cursor 0
C1_Witness ==
    /\ lastCall.op = "redo" /\ lastCall.n = 2 /\ lastCall.c = 0
    /\ Len(history) = 2 /\ editCount = 2 /\ Len(applied) = 2
    /\ snap[1] # snap[2] /\ snap[2] # snap[3] /\ snap[1] # snap[3]
    /\ dom = snap[3]

\* C2: the cursor stays within the history, and every append leaves it at
\* the end of the history.
C2_CursorInRange ==
    /\ 0 <= editCount
    /\ editCount <= Len(history)
    /\ lastCall.op \in {"edit", "editV2"} => editCount = Len(history)

\* a legacy append made after an undo, in a session that has opened a document
C2_Witness ==
    /\ lastCall.op = "edit" /\ lastCall.c < lastCall.len /\ ~raised
    /\ docName \in DOMAIN docs
    /\ editCount = Len(history) /\ editCount = lastCall.c + 1

\* helpers of the properties below
IsAppend(call) == call.op \in {"edit", "editV2"}
NoLabel(title) == title = Undefined \/ title = ""
Flat(e) == IF isComplex(e) THEN e.edits ELSE <<e>>
LastOf(h) == h[Len(h)]
Same == UNCHANGED <<history, editCount, dom, docVersion>>

\* C3: an append made while entries are undone leaves no entry at or after
\* the old cursor except the one it records, so nothing can be redone (canRedo
\* is false and redo changes nothing); undo and redo afterwards only ever
\* apply edits of entries the history holds, and leave the history as it is.
C3_TruncationOnBranch ==
    [][ /\ (IsAppend(lastCall') /\ editCount < Len(history)) =>
             /\ Len(history') = editCount'
             /\ Len(history') <= editCount + 1
             /\ \A i \in 1..(Len(history') - 1) : history'[i] = history[i]
             /\ ~canRedo'
             /\ (\A n \in NArgs : redo(Cursor, n) = Cursor)'
        /\ lastCall'.op \in {"undo", "redo"} =>
             /\ history' = history
             /\ \A i \in 1..Len(applied') : \E j \in 1..Len(history) :
                    applied'[i] \in {history[j].undo, history[j].redo}
      ]_vars

\* a new edit appended at cursor 1 of a history of 2: the second entry is gone
C3_Witness ==
    /\ lastCall.op = "editV2" /\ ~lastCall.squash /\ ~raised
    /\ lastCall.c = 1 /\ lastCall.len = 2
    /\ Len(history) = 2 /\ editCount = 2
    /\ LastOf(history).redo = applied[1]

\* C4: a squash append of B made right after the entry of A replaces that
\* entry by one whose redo is A's edits and then B's, and whose undo is the
\* inverse of B and then the inverse of A.
C4_SquashCorrectness ==
    [][ ( /\ lastCall'.op = "editV2" /\ lastCall'.squash /\ ~raised'
          /\ editCount = Len(history) /\ Len(history) >= 1 ) =>
        LET A == LastOf(history)
            B == applied'[1]
            invB == handleEdit(dom, B, failFast).inv
        IN /\ Len(history') = Len(history)
           /\ \A i \in 1..(Len(history) - 1) : history'[i] = history[i]
           /\ LastOf(history').redo = Complex(Flat(A.redo) \o Flat(B))
           /\ LastOf(history').undo = Complex(Flat(invB) \o Flat(A.undo))
      ]_vars

\* A appended without squash, then a different B with squash: one entry <<A, B>>
C4_Witness ==
    /\ lastCall.op = "editV2" /\ lastCall.squash /\ ~raised
    /\ lastCall.c = 1 /\ lastCall.len = 1
    /\ Len(history) = 1 /\ editCount = 1
    /\ Size(history[1].redo) = 2 /\ Size(history[1].undo) = 2
    /\ history[1].redo.edits[2] = applied[1]
    /\ history[1].redo.edits[1] # applied[1]
    /\ history[1].undo.edits[1] # history[1].undo.edits[2]

\* C5 as stated: a squash append without label onto a non-empty history keeps
\* the length, takes the title of the last entry and leaves the cursor at the
\* end; one with a label gives the entry that label.
C5_AsStated ==
    [][ ( /\ lastCall'.op = "editV2" /\ lastCall'.squash /\ ~raised'
          /\ Len(history) >= 1 ) =>
        IF NoLabel(lastCall'.title)
        THEN /\ Len(history') = Len(history)
             /\ LastOf(history').title = LastOf(history).title
             /\ editCount' = Len(history')
        ELSE LastOf(history').title = lastCall'.title
      ]_vars

\* C5: a squash append without label made at cursor c >= 1 leaves a history
\* of c entries (the length it had only if nothing was undone), gives the
\* combined entry the title of the entry at index c-1, which it replaces, and
\* leaves the cursor at the end; made at cursor 0 it records an entry of its
\* own, without title; a squash append with a label gives the entry that
\* label.
C5_SquashTitle ==
    [][ ( /\ lastCall'.op = "editV2" /\ lastCall'.squash /\ ~raised' ) =>
        IF NoLabel(lastCall'.title)
        THEN /\ editCount >= 1 =>
                  /\ Len(history') = editCount
                  /\ LastOf(history').title = history[editCount].title
             /\ editCount = 0 =>
                  /\ Len(history') = 1
                  /\ LastOf(history').title = Undefined
             /\ editCount' = Len(history')
        ELSE LastOf(history').title = lastCall'.title
      ]_vars

\* a squash append without label at cursor 1 of 2 takes over the title "add X"
C5_Witness ==
    /\ lastCall.op = "editV2" /\ lastCall.squash /\ ~raised
    /\ lastCall.title = Undefined
    /\ lastCall.c = 1 /\ lastCall.len = 2
    /\ Len(history) = 1 /\ editCount = 1
    /\ history[1].title = "add X"
    /\ Size(history[1].redo) >= 2

\* C6: undo at cursor 0 and redo at the end of the history, whatever n,
\* raise nothing and change neither history, cursor, tree nor docVersion.
C6_IdempotentBoundaries ==
    [][ ( \/ lastCall'.op = "undo" /\ editCount = 0
          \/ lastCall'.op = "redo" /\ editCount = Len(history) ) =>
        ~raised' /\ Same
      ]_vars

\* undo(2) called when everything is already undone
C6_Witness ==
    /\ lastCall.op = "undo" /\ lastCall.n = 2
    /\ lastCall.c = 0 /\ lastCall.len = 2
    /\ editCount = 0 /\ applied = <<>> /\ docVersion = 4

\* C7: docVersion goes up by one for an append that succeeds, by the number
\* of steps performed for undo(n) and redo(n), that is min(n, c) and
\* min(n, length - c), and stays as it is in every other event: open-document,
\* configure-plugin, an assignment of the plugins set, a finished import.
C7_VersionCounts ==
    [][ docVersion' = docVersion +
          ( CASE IsAppend(lastCall') -> (IF raised' THEN 0 ELSE 1)
              [] lastCall'.op = "undo" ->
                    (IF lastCall'.n < 1 THEN 0 ELSE Min(lastCall'.n, editCount))
              [] lastCall'.op = "redo" ->
                    (IF lastCall'.n < 1 THEN 0
                     ELSE Min(lastCall'.n, Len(history) - editCount))
              [] OTHER -> 0 )
      ]_vars

\* undo(2) with one entry to undo counts once, in a session that has opened a
\* document and loaded a plugin
C7_Witness ==
    /\ lastCall.op = "undo" /\ lastCall.n = 2 /\ lastCall.c = 1
    /\ editCount = 0 /\ docVersion = 2
    /\ docName \in DOMAIN docs
    /\ DOMAIN loadedPlugins # {}

\* C8: undo(n) from cursor c applies the undo edits of the min(n, c) entries
\* below c, newest first; redo(n) applies the redo edits of the
\* min(n, length - c) entries from c on, oldest first; the cursor moves by as
\* much, and with n < 1 nothing changes.
C8_UndoRedoSteps ==
    [][ /\ lastCall'.op = "undo" =>
             LET k == IF lastCall'.n < 1 THEN 0 ELSE Min(lastCall'.n, editCount) IN
             /\ Len(applied') = k
             /\ \A i \in 1..k : applied'[i] = history[editCount - i + 1].undo
             /\ editCount' = editCount - k
             /\ k = 0 => Same
        /\ lastCall'.op = "redo" =>
             LET k == IF lastCall'.n < 1 THEN 0
                      ELSE Min(lastCall'.n, Len(history) - editCount) IN
             /\ Len(applied') = k
             /\ \A i \in 1..k : applied'[i] = history[editCount + i].redo
             /\ editCount' = editCount + k
             /\ k = 0 => Same
      ]_vars

\* undo(2) from cursor 2 applied the second entry's undo, then the first's
C8_Witness ==
    /\ lastCall.op = "undo" /\ lastCall.n = 2 /\ lastCall.c = 2
    /\ Len(history) = 2 /\ editCount = 0
    /\ applied = <<history[2].undo, history[1].undo>>
    /\ history[2].undo # history[1].undo

\* C9: undo(n) and redo(n) leave the entries of the history, and the
\* document registry, exactly as they were.
C9_NotRecorded ==
    [][ lastCall'.op \in {"undo", "redo"} =>
        /\ history' = history
        /\ UNCHANGED <<docs, docName>>
      ]_vars

\* an undo that applied an entry which the history still holds afterwards
C9_Witness ==
    /\ lastCall.op = "undo" /\ lastCall.n = 1 /\ lastCall.c = 2
    /\ Len(history) = 2 /\ editCount = 1
    /\ applied = <<history[2].undo>>

\* C10 as stated: an append without squash and without label records an
\* entry without title.
C10_NoTitleWithoutSquash ==
    [][ ( /\ lastCall'.op = "editV2" /\ ~lastCall'.squash /\ ~raised'
          /\ NoLabel(lastCall'.title) ) =>
        LastOf(history').title = Undefined
      ]_vars

\* helpers of the properties of the plugin registry
IsConfigure(call) == call.op = "configure" /\ call.config # NoPlugin
IsRemoval(call) == call.op = "configure" /\ call.config = NoPlugin
TagOf(src) == pluginTag(pluginTags, src)
EntriesOf(loaded, src) == {t \in DOMAIN loaded : loaded[t].src = src}

\* C11: pluginTag gives a src the tag it gave it before, in the same call
\* sequence and in every later state; loading a descriptor whose tag is in
\* loadedPlugins leaves loadedPlugins, the imports in flight and the defined
\* elements as they are; and after a src is loaded, however often,
\* loadedPlugins holds exactly one entry for it.
C11_LoadIdempotent ==
    [][ /\ \A src \in DOMAIN pluginTags :
             /\ src \in DOMAIN pluginTags'
             /\ pluginTags'[src] = pluginTags[src]
             /\ pluginTag(pluginTags', src) = pluginTag(pluginTags, src)
        /\ \A p \in PluginInputs :
             pluginTag(pluginTagsAfter(pluginTags, p.src), p.src) = TagOf(p.src)
        /\ IsConfigure(lastCall') =>
             /\ TagOf(lastCall'.config.src) \in DOMAIN loadedPlugins =>
                  /\ loadedPlugins' = loadedPlugins
                  /\ imports' = imports
                  /\ customElements' = customElements
             /\ Cardinality(EntriesOf(loadedPlugins', lastCall'.config.src)) = 1
      ]_vars

\* q is configured from a.js while a.js is loaded for p: the entry stays p's
C11_Witness ==
    /\ IsConfigure(lastCall) /\ lastCall.config = Plugin("q", "a.js")
    /\ TagOf("a.js") \in DOMAIN loadedPlugins
    /\ loadedPlugins[TagOf("a.js")] = Plugin("p", "a.js")
    /\ Len(plugins[lastCall.kind]) = 2
    /\ plugins[lastCall.kind][1] = Plugin("p", "a.js")

\* C12 as stated, for the registration it promises: whatever the
\* interleaving of loads, unloads and completed imports, no completed import
\* registers a module under a tag that is defined already.
C12_RegisteredOnce == ~(lastCall.op = "import" /\ raised)

\* C13: a configure-plugin event with a null config raises nothing and leaves
\* the list of the other kind as it is; when the list of its kind holds
\* descriptors called name it takes the first of them out, keeps the others
\* in their order, and takes that descriptor's tag, and no other, out of
\* loadedPlugins; when it holds none, lists and loadedPlugins stay as they are.
C13_UnloadFirst ==
    [][ IsRemoval(lastCall') =>
        LET name == lastCall'.name
            kind == lastCall'.kind
            list == plugins[kind]
            hits == {i \in 1..Len(list) : list[i].name = name}
        IN /\ ~raised'
           /\ imports' = imports
           /\ \A k \in Kinds \ {kind} : plugins'[k] = plugins[k]
           /\ hits = {} => plugins' = plugins /\ loadedPlugins' = loadedPlugins
           /\ hits # {} =>
                LET i == CHOOSE h \in hits : \A g \in hits : h <= g
                    tagName == TagOf(list[i].src)
                IN /\ plugins'[kind] = [k \in 1..(Len(list) - 1) |->
                                           IF k < i THEN list[k] ELSE list[k + 1]]
                   /\ DOMAIN loadedPlugins' = DOMAIN loadedPlugins \ {tagName}
                   /\ \A t \in DOMAIN loadedPlugins' : loadedPlugins'[t] = loadedPlugins[t]
      ]_vars

\* p is removed from a list that held p twice, from a.js and then from
\* b.js: the descriptor from b.js is the one left, and only a.js is unloaded
C13_Witness ==
    /\ IsRemoval(lastCall) /\ lastCall.name = "p"
    /\ plugins[lastCall.kind] = <<Plugin("p", "b.js")>>
    /\ "a.js" \in DOMAIN pluginTags
    /\ TagOf("a.js") \notin DOMAIN loadedPlugins
    /\ TagOf("b.js") \in DOMAIN loadedPlugins

UniqueNames(set) ==
    \A kind \in Kinds : \A i \in 1..Len(set[kind]) : \A j \in 1..Len(set[kind]) :
        set[kind][i].name = set[kind][j].name => i = j

\* C14 as stated: a configure-plugin event never leaves two descriptors of
\* one name in the list of a kind; with a config for a name the list holds
\* already, the list keeps its length.
C14_UniqueNameInKind ==
    [][ (lastCall'.op = "configure" /\ UniqueNames(plugins)) =>
        /\ UniqueNames(plugins')
        /\ ( /\ lastCall'.config # NoPlugin
             /\ \E i \in 1..Len(plugins[lastCall'.kind]) :
                   plugins[lastCall'.kind][i].name = lastCall'.config.name ) =>
             Len(plugins'[lastCall'.kind]) = Len(plugins[lastCall'.kind])
      ]_vars

\* C15: an open-document event makes its name the active one, stores its
\* document under that name, and leaves the entries under other names as they
\* are; so after any sequence of such events docName is empty or a key of docs.
C15_OpenDocument ==
    [][ /\ (docName' = "" \/ docName' \in DOMAIN docs')
        /\ lastCall'.op = "open" =>
             /\ ~raised'
             /\ docName' = lastCall'.name
             /\ DOMAIN docs' = DOMAIN docs \cup {docName'}
             /\ docs'[docName'] = lastCall'.doc
             /\ \A k \in DOMAIN docs \ {docName'} : docs'[k] = docs[k]
      ]_vars

\* B.scd is opened a second time, with another document, while A.scd is open
C15_Witness ==
    /\ lastCall.op = "open" /\ lastCall.name = "B.scd" /\ lastCall.doc = "D2"
    /\ docName = "B.scd"
    /\ DOMAIN docs = {"A.scd", "B.scd"}
    /\ docs["A.scd"] = "D1" /\ docs["B.scd"] = "D2"

\* C16 as stated: whenever docName is not empty and not a key of docs, the
\* accessor of the active document fails and returns no value.
C16_NotFound ==
    (docName # "" /\ docName \notin DOMAIN docs) => doc.raised

\* a squash append that merged its edit into the entry before the cursor
Merged == lastCall.op = "editV2" /\ lastCall.squash /\ ~raised /\ lastCall.c >= 1

\* C17: right after B is squashed onto the entry of A, one undo() brings back
\* the tree as it was before A and takes the cursor back by one, and one
\* redo() after it brings back the tree as it is after A and B.
C17_SquashedIsOneStep ==
    Merged =>
        LET u == undo(Cursor, 1)
            r == redo(u, 1)
        IN /\ ~u.raised /\ ~r.raised
           /\ u.editCount = editCount - 1
           /\ u.dom = snap[editCount]
           /\ Len(u.applied) = 1
           /\ r.editCount = editCount
           /\ r.dom = dom
           /\ r.history = history

\* B moved the node that A inserted: the entry holds both, and its undo
\* changes the tree
C17_Witness ==
    /\ Merged
    /\ Size(LastOf(history).redo) = 2 /\ Size(LastOf(history).undo) = 2
    /\ LastOf(history).redo.edits[1] # LastOf(history).redo.edits[2]
    /\ snap[editCount] # dom
    /\ undo(Cursor, 1).dom = snap[editCount]

\* an edit that is single, or a list of single edits
FlatEdit(e) == isComplex(e) => \A i \in 1..Len(e.edits) : ~isComplex(e.edits[i])

\* C18: every squash append onto an applied entry, itself single or the
\* result of earlier squashes, records one list of single edits for redo, the
\* entry's parts in their order and then the parts of the new edit, and one
\* for undo, the parts of the new edit's inverse and then the entry's; the
\* lists have as many parts as went in, and no entry of the history ever
\* holds a list within a list.
C18_FlatChain ==
    [][ /\ \A i \in 1..Len(history') :
             FlatEdit(history'[i].redo) /\ FlatEdit(history'[i].undo)
        /\ ( /\ lastCall'.op = "editV2" /\ lastCall'.squash /\ ~raised'
             /\ editCount >= 1 ) =>
           LET A == history[editCount]
               B == applied'[1]
               invB == handleEdit(dom, B, failFast).inv
               E == LastOf(history')
           IN /\ isComplex(E.redo) /\ isComplex(E.undo)
              /\ E.redo.edits = Flat(A.redo) \o Flat(B)
              /\ E.undo.edits = Flat(invB) \o Flat(A.undo)
              /\ Len(E.redo.edits) = Size(A.redo) + Size(B)
              /\ Len(E.undo.edits) = Size(invB) + Size(A.undo)
      ]_vars

\* a chain of three: x inserted, then given an attribute and then removed,
\* both with squash
C18_Witness ==
    /\ Merged /\ Len(history) = 1
    /\ history[1].redo = Complex(<<Insert("D1", "x", Null),
                                   SetAttributes("x", attrOn), Remove("x")>>)
    /\ Size(history[1].undo) = 3
    /\ \A i \in 1..3 : ~isComplex(history[1].undo.edits[i])

\* C19: a squash append made at cursor 0, with the history empty or with
\* every entry undone, leaves a history of one entry that holds the new edit,
\* its inverse and the label alone; made at a cursor c between 0 and the
\* length, it leaves c entries, the first c-1 as they were and the last the
\* entry at index c-1 merged with the new edit.
C19_TruncateThenSquash ==
    [][ (lastCall'.op = "editV2" /\ lastCall'.squash /\ ~raised') =>
        LET B == applied'[1]
            invB == handleEdit(dom, B, failFast).inv
            label == IF NoLabel(lastCall'.title) THEN Undefined ELSE lastCall'.title
        IN /\ editCount = 0 =>
                /\ history' = <<Entry(invB, B, label)>>
                /\ editCount' = 1
           /\ (0 < editCount /\ editCount < Len(history)) =>
                /\ Len(history') = editCount
                /\ editCount' = editCount
                /\ \A i \in 1..(editCount - 1) : history'[i] = history[i]
                /\ LastOf(history').redo.edits = Flat(history[editCount].redo) \o Flat(B)
                /\ LastOf(history').undo.edits = Flat(invB) \o Flat(history[editCount].undo)
      ]_vars

\* two entries, both undone, then a squash append: one entry, the new edit's
C19_Witness ==
    /\ lastCall.op = "editV2" /\ lastCall.squash /\ ~raised
    /\ lastCall.c = 0 /\ lastCall.len = 2
    /\ Len(history) = 1 /\ editCount = 1
    /\ history[1].redo = applied[1]
    /\ dom # snap[1]

\* C20 as stated: a legacy edit event leaves the history, the cursor and
\* docVersion that the v2 event with the same (converted) edit, no label and
\* squash false leaves from the same state.
C20_LegacyIsPlainV2 ==
    [][ (lastCall'.op = "edit" /\ ~raised') =>
        LET editV2 == applied'[1]
            h1 == splice(history, editCount)
            undoEdit == handleEdit(dom, editV2, failFast).inv
        IN /\ history' = Append(h1, Entry(undoEdit, editV2, logTitle(h1, Undefined)))
           /\ editCount' = Len(history')
           /\ docVersion' = updateVersion(docVersion)
      ]_vars

\* C21 as stated: when the applier raises on the edit of an append, the
\* history, with the entries that could still be redone, the cursor and
\* docVersion are as they were before the call; when it raises during undo or
\* redo, the cursor and docVersion are as they were.
C21_FailedEditChangesNothing ==
    [][ /\ (IsAppend(lastCall') /\ raised') =>
             /\ history' = history
             /\ editCount' = editCount
             /\ docVersion' = docVersion
        /\ (lastCall'.op \in {"undo", "redo"} /\ raised') =>
             /\ editCount' = editCount
             /\ docVersion' = docVersion
      ]_vars

\* C22: an open-document event leaves the history, the cursor, docVersion
\* and the trees as they are, so what undo() and redo() would do is what they
\* would have done before it: undo() still applies the entry before the cursor
\* and brings back the tree recorded for the cursor below.
C22_OpenKeepsHistory ==
    [][ lastCall'.op = "open" =>
        LET after == [history |-> history', editCount |-> editCount',
                      docVersion |-> docVersion', dom |-> dom',
                      applied |-> <<>>, raised |-> FALSE]
        IN /\ history' = history
           /\ editCount' = editCount
           /\ docVersion' = docVersion
           /\ dom' = dom
           /\ undo(after, 1) = undo(Cursor, 1)
           /\ redo(after, 1) = redo(Cursor, 1)
           /\ editCount > 0 =>
                /\ undo(after, 1).applied = <<history[editCount].undo>>
                /\ undo(after, 1).dom = snap[editCount]
      ]_vars

\* x was inserted under D1; then D2 is opened as A.scd: the entry is still
\* there to undo
C22_Witness ==
    /\ lastCall.op = "open" /\ lastCall.doc = "D2"
    /\ docs[docName] = "D2"
    /\ editCount = 1 /\ Len(history) >= 1
    /\ history[1].redo = Insert("D1", "x", Null)
    /\ undo(Cursor, 1).dom # dom

\* the descriptors the lists hold, and their tags
Configured ==
    {plugins.menu[i] : i \in 1..Len(plugins.menu)}
        \cup {plugins.editor[i] : i \in 1..Len(plugins.editor)}
ConfiguredTags == {TagOf(p.src) : p \in Configured}

\* C23 as stated: after any configure-plugin events and assignments of the
\* plugins set, every descriptor that the menu or the editor list holds has
\* its tag in loadedPlugins.
C23_ConfiguredAreLoaded == ConfiguredTags \subseteq DOMAIN loadedPlugins

\* C24 as stated: after any configure-plugin events and assignments of the
\* plugins set, every tag in loadedPlugins is the tag of a descriptor that
\* the menu or the editor list holds.
C24_NoStaleEntry == DOMAIN loadedPlugins \subseteq ConfiguredTags

\* C25 as stated: a close event takes the first occurrence of its request
\* out of the workflow and keeps the other requests in their order; for a
\* request that the workflow does not hold, it leaves the workflow as it is.
C25_CloseRemovesGiven ==
    [][ lastCall'.op = "closeWizard" =>
        IF Has(workflow, lastCall'.wizard)
        THEN LET i == IndexOf(workflow, lastCall'.wizard)
             IN workflow' = SubSeq(workflow, 1, i - 1) \o SubSeq(workflow, i + 1, Len(workflow))
        ELSE workflow' = workflow
      ]_vars

====
